---- MODULE Spec2Model ----
(***************************************************************************)
(* State-machine model of the Clear Songs front end: the deletion          *)
(* workflows of the dashboard, track-management and playlists views, the   *)
(* global loading indicator, the notification layer, the HTTP interceptor  *)
(* and the route guard.                                                    *)
(*                                                                         *)
(* Every handler of the code is one action.  `toasts' and `navCalls' hold  *)
(* the NotificationService and router.navigate calls made by the handler   *)
(* that ran last, in call order; `last' names that handler and its input.  *)
(***************************************************************************)
EXTENDS Integers, Sequences, FiniteSets, TLC

VARIABLES
  route,              \* the view the router shows
  guard,              \* the protected view a pending authGuard run is for
  isAuthenticated,    \* AuthService._isAuthenticated
  currentUser,        \* AuthService._currentUser
  storedAuth,         \* localStorage key 'isAuthenticated'
  rangeForm,          \* TrackManagementComponent.rangeForm.value
  rangeErrors,        \* TrackManagementComponent.rangeForm.errors
  playlistForm,       \* PlaylistsComponent.playlistForm.value.playlistId
  userPlaylists,      \* PlaylistsComponent.userPlaylists
  selectedPlaylistId, \* PlaylistsComponent.selectedPlaylistId
  loadingPlaylists,   \* PlaylistsComponent.loadingPlaylists
  lastOperation,      \* PlaylistsComponent.lastOperation
  artists,            \* DashboardComponent.artists
  isLoading,          \* DashboardComponent.isLoading
  filteredArtists,    \* DashboardComponent.filteredArtists
  searchFilter,       \* DashboardComponent.searchFilter
  currentPage,        \* DashboardComponent.currentPage
  sortColumn,         \* DashboardComponent.sortColumn
  sortDirection,      \* DashboardComponent.sortDirection
  totalTracks,        \* DashboardComponent.totalTracks
  totalArtists,       \* DashboardComponent.totalArtists
  chartData,          \* DashboardComponent.chartData
  store,              \* TrackStore: the signals _artists, _loading, _error
  modal,              \* the open confirmation modal
  inflight,           \* HTTP requests awaiting their response
  loading,            \* LoadingService._loading
  toasts,             \* NotificationService calls of the last handler
  navCalls,           \* router.navigate calls of the last handler
  decisions,          \* values emitted by authGuard in the last handler
  last                \* the handler that ran last, with its input

vars == <<route, guard, isAuthenticated, currentUser, storedAuth, rangeForm, rangeErrors,
          playlistForm, userPlaylists, selectedPlaylistId, loadingPlaylists, lastOperation,
          artists, isLoading, filteredArtists, searchFilter, currentPage, sortColumn,
          sortDirection, totalTracks, totalArtists, chartData, store,
          modal, inflight, loading, toasts, navCalls, decisions, last>>

-----------------------------------------------------------------------------
(* Bounds *)

\* largest track count a user types into the range form
MaxBound == 1
\* number of HTTP requests that can be in flight at once
MaxInFlight == 2

-----------------------------------------------------------------------------
(* JavaScript values *)

NULL == [t |-> "null"]
UNDEFINED == [t |-> "undefined"]
Num(n) == [t |-> "num", v |-> n]
Str(s) == [t |-> "str", v |-> s]

Digit(d) ==
  CASE d = 0 -> "0" [] d = 1 -> "1" [] d = 2 -> "2" [] d = 3 -> "3"
    [] d = 4 -> "4" [] d = 5 -> "5" [] d = 6 -> "6" [] d = 7 -> "7"
    [] d = 8 -> "8" [] d = 9 -> "9"

\* Number.prototype.toString / template-literal conversion of an integer
RECURSIVE NumToString(_)
NumToString(n) ==
  IF n < 0 THEN "-" \o NumToString(-n)
  ELSE IF n < 10 THEN Digit(n)
  ELSE NumToString(n \div 10) \o Digit(n % 10)

\* `${x}` for a value that is a number or null
Template(x) == IF x.t = "num" THEN NumToString(x.v) ELSE x.t

-----------------------------------------------------------------------------
(* http-params.helper.ts *)

\* buildRangeParams: a parameter is set unless the argument is undefined;
\* calling toString on null throws a TypeError.
buildRangeParams(min, max) ==
  IF (min # UNDEFINED /\ min.t # "num") \/ (max # UNDEFINED /\ max.t # "num")
  THEN [threw |-> TRUE, params |-> {}]
  ELSE [threw |-> FALSE,
        params |-> (IF min # UNDEFINED THEN {<<"min", NumToString(min.v)>>} ELSE {})
                   \cup (IF max # UNDEFINED THEN {<<"max", NumToString(max.v)>>} ELSE {})]

-----------------------------------------------------------------------------
(* Strings of the playlist form, kept as sequences of characters *)

AlnumChars == {"a", "B", "7"}

Rep(c, n) == [i \in 1..n |-> c]

RECURSIVE Join(_)
Join(cs) == IF cs = <<>> THEN "" ELSE Head(cs) \o Join(Tail(cs))

\* String.prototype.trim
RECURSIVE TrimStart(_)
TrimStart(cs) == IF cs # <<>> /\ Head(cs) = " " THEN TrimStart(Tail(cs)) ELSE cs
RECURSIVE TrimEnd(_)
TrimEnd(cs) ==
  IF cs # <<>> /\ cs[Len(cs)] = " " THEN TrimEnd(SubSeq(cs, 1, Len(cs) - 1)) ELSE cs
Trim(cs) == TrimEnd(TrimStart(cs))

-----------------------------------------------------------------------------
(* Form validation *)

\* Validators.min(0) on one control of the range form
minZeroError(x) == x.t = "num" /\ x.v < 0

\* the ValidationErrors object { invalidRange: true }
InvalidRange == [t |-> "obj", invalidRange |-> TRUE]

\* a validator that also rejects min = max
rangeValidatorNonStrict(min, max) ==
  IF min # NULL /\ max # NULL /\ min.v >= max.v THEN InvalidRange ELSE NULL

\* TrackManagementComponent.rangeValidator
rangeValidator(min, max) ==
  IF min # NULL /\ max # NULL /\ min.v > max.v THEN InvalidRange ELSE NULL

\* a value change of the range form re-runs the group validator
setRangeValue(w, value) ==
  [w EXCEPT !.rangeForm = value, !.rangeErrors = rangeValidator(value.min, value.max)]

\* rangeForm.invalid: a control or the group has errors
rangeFormInvalid(w) ==
  minZeroError(w.rangeForm.min) \/ minZeroError(w.rangeForm.max) \/ w.rangeErrors # NULL

\* Validators.minLength(10) of the playlist form
PlaylistMinLength == 10

\* Validators.required, Validators.pattern(/^[A-Za-z0-9]+$/), Validators.minLength(10)
requiredError(x) == x = NULL \/ x.v = <<>>
patternError(x) == x # NULL /\ x.v # <<>> /\ \E i \in 1..Len(x.v) : x.v[i] \notin AlnumChars
minLengthError(x) == x # NULL /\ x.v # <<>> /\ Len(x.v) < PlaylistMinLength

\* playlistForm.invalid
playlistFormInvalid(x) == requiredError(x) \/ patternError(x) \/ minLengthError(x)

-----------------------------------------------------------------------------
(* The application state as one record, so that handlers compose in the    *)
(* order the code calls them.  `emit' is the value an observable pipe     *)
(* carries from one operator to the next; `overflow' records an attempt to issue a    *)
(* request beyond MaxInFlight; such steps are cut off by the bound.        *)

W ==
  [route |-> route, guard |-> guard, isAuthenticated |-> isAuthenticated,
   currentUser |-> currentUser, storedAuth |-> storedAuth, rangeForm |-> rangeForm, rangeErrors |-> rangeErrors,
   playlistForm |-> playlistForm, userPlaylists |-> userPlaylists,
   selectedPlaylistId |-> selectedPlaylistId,
   loadingPlaylists |-> loadingPlaylists, lastOperation |-> lastOperation,
   artists |-> artists, isLoading |-> isLoading, filteredArtists |-> filteredArtists,
   searchFilter |-> searchFilter, currentPage |-> currentPage, sortColumn |-> sortColumn,
   sortDirection |-> sortDirection, totalTracks |-> totalTracks,
   totalArtists |-> totalArtists, chartData |-> chartData, store |-> store,
   modal |-> modal,
   inflight |-> inflight, loading |-> loading,
   toasts |-> <<>>, navCalls |-> <<>>, decisions |-> <<>>, emit |-> NULL,
   overflow |-> FALSE]

\* the handler's result becomes the next state
Apply(result, ev) ==
  \E w \in {result} :
    /\ ~w.overflow
    /\ route' = w.route
    /\ guard' = w.guard
    /\ isAuthenticated' = w.isAuthenticated
    /\ currentUser' = w.currentUser
    /\ storedAuth' = w.storedAuth
    /\ rangeForm' = w.rangeForm
    /\ rangeErrors' = w.rangeErrors
    /\ playlistForm' = w.playlistForm
    /\ userPlaylists' = w.userPlaylists
    /\ selectedPlaylistId' = w.selectedPlaylistId
    /\ loadingPlaylists' = w.loadingPlaylists
    /\ lastOperation' = w.lastOperation
    /\ artists' = w.artists
    /\ isLoading' = w.isLoading
    /\ filteredArtists' = w.filteredArtists
    /\ searchFilter' = w.searchFilter
    /\ currentPage' = w.currentPage
    /\ sortColumn' = w.sortColumn
    /\ sortDirection' = w.sortDirection
    /\ totalTracks' = w.totalTracks
    /\ totalArtists' = w.totalArtists
    /\ chartData' = w.chartData
    /\ store' = w.store
    /\ modal' = w.modal
    /\ inflight' = w.inflight
    /\ loading' = w.loading
    /\ toasts' = w.toasts
    /\ navCalls' = w.navCalls
    /\ decisions' = w.decisions
    /\ last' = ev

-----------------------------------------------------------------------------
(* LoadingService, NotificationService *)

show(w) == [w EXCEPT !.loading = TRUE]
hide(w) == [w EXCEPT !.loading = FALSE]

notify(w, level, message) ==
  [w EXCEPT !.toasts = Append(@, [level |-> level, message |-> message])]
success(w, message) == notify(w, "success", message)
error(w, message) == notify(w, "error", message)
warning(w, message) == notify(w, "warning", message)

-----------------------------------------------------------------------------
(* HttpClient: requests in flight *)

Slots == 1..MaxInFlight

FREE == [method |-> "NONE", url |-> "", params |-> {}, sub |-> "none", ctx |-> NULL]

Request(method, url, params, sub, ctx) ==
  [method |-> method, url |-> url, params |-> params, sub |-> sub, ctx |-> ctx]

FreeSlots(w) == {s \in Slots : w.inflight[s] = FREE}

\* subscribing to a cold HttpClient observable sends the request
subscribe(w, req) ==
  IF FreeSlots(w) = {} THEN [w EXCEPT !.overflow = TRUE]
  ELSE LET s == CHOOSE x \in FreeSlots(w) : \A y \in FreeSlots(w) : x <= y
       IN [w EXCEPT !.inflight[s] = req]

\* the response (or the unsubscription) ends the request; the requests
\* still in flight are kept in the order they were sent
complete(w, s) ==
  [w EXCEPT !.inflight =
     [i \in Slots |-> IF i < s THEN @[i] ELSE IF i < MaxInFlight THEN @[i + 1] ELSE FREE]]

-----------------------------------------------------------------------------
(* TrackService, PlaylistService *)

getTrackSummary(min, max) ==
  LET p == buildRangeParams(min, max)
  IN [threw |-> p.threw,
      req |-> Request("GET", "/track/summary", p.params, "loadTrackSummary", NULL)]

deleteTracksByArtist(artist) ==
  Request("DELETE", "/track/by-artist/" \o artist.id, {}, "deleteArtistTracks", artist)

deleteTracksByRange(min, max) ==
  LET p == buildRangeParams(min, max)
  IN [threw |-> p.threw,
      req |-> Request("DELETE", "/track/by-range", p.params, "deleteByRange", NULL)]

getUserPlaylists == Request("GET", "/playlist/list", {}, "loadUserPlaylists", NULL)

deleteAllPlaylistTracks(playlistId, ctx) ==
  Request("DELETE", "/playlist/delete-tracks", {<<"id", Join(playlistId)>>},
          "handleAction", ctx)

deleteAllPlaylistAndUserTracks(playlistId, ctx) ==
  Request("DELETE", "/playlist/delete-tracks-and-library", {<<"id", Join(playlistId)>>},
          "handleAction", ctx)

-----------------------------------------------------------------------------
(* NgbModal and ConfirmDialogComponent *)

NoModal ==
  [sub |-> "none", title |-> "", message |-> "", confirmText |-> "",
   cancelText |-> "", args |-> NULL, alive |-> FALSE]

\* modalService.open(ConfirmDialogComponent) and the componentInstance fields
open(w, sub, title, message, confirmText, cancelText, args) ==
  [w EXCEPT !.modal =
     [sub |-> sub, title |-> title, message |-> message, confirmText |-> confirmText,
      cancelText |-> cancelText, args |-> args, alive |-> TRUE]]

\* onConfirm closes with true, onCancel closes with false; the backdrop
\* and the Escape key dismiss the modal (the promise is rejected)
ModalResults == {"true", "false", "dismissed"}

-----------------------------------------------------------------------------
(* Arrays and strings of the dashboard *)

\* the elements of an array
Items(s) == {s[i] : i \in 1..Len(s)}

\* Array.prototype.sort is stable: an element comes after those the
\* comparator puts before it and after the equal ones that preceded it
\* (compareFn is the comparator as a function of two elements of the array)
\* x goes behind the elements of the sorted array that do not come after it
insertSorted(sorted, x, compareFn) ==
  LET keep == {i \in 1..Len(sorted) : compareFn[sorted[i], x] <= 0}
      k == IF keep = {} THEN 0 ELSE CHOOSE i \in keep : \A j \in keep : j <= i
  IN SubSeq(sorted, 1, k) \o <<x>> \o SubSeq(sorted, k + 1, Len(sorted))

RECURSIVE sortPrefix(_, _, _)
sortPrefix(s, n, compareFn) ==
  IF n = 0 THEN <<>>
  ELSE CHOOSE result \in { insertSorted(sorted, s[n], compareFn) :
                             sorted \in {sortPrefix(s, n - 1, compareFn)} } : TRUE

sort(s, compareFn) == sortPrefix(s, Len(s), compareFn)

\* Array.prototype.slice(start, end): a negative index counts from the end
\* of the array, an index beyond either end is clamped to it
slice(s, start, end) ==
  LET len == Len(s)
      relative(k) == IF k < 0 THEN (IF len + k < 0 THEN 0 ELSE len + k)
                     ELSE (IF k < len THEN k ELSE len)
  IN SubSeq(s, relative(start) + 1, relative(end))

\* data.reduce((sum, artist) => sum + artist.count, 0)
RECURSIVE reduceCount(_, _)
reduceCount(s, sum) ==
  IF s = <<>> THEN sum ELSE reduceCount(Tail(s), sum + Head(s).count)

\* the letters of the names and filters, in collation order
Alphabet ==
  <<"a", "b", "c", "d", "e", "f", "g", "h", "i", "j", "k", "l", "m",
    "n", "o", "p", "q", "r", "s", "t", "u", "v", "w", "x", "y", "z">>

\* String.prototype.toLowerCase on one character
LowerChar(c) ==
  CASE c = "A" -> "a" [] c = "B" -> "b" [] OTHER -> c

\* String.prototype.toLowerCase on the characters of a string
toLowerCase(cs) == [i \in 1..Len(cs) |-> LowerChar(cs[i])]

\* the characters of an artist name
Chars(name) ==
  CASE name = "Abba" -> <<"A", "b", "b", "a">>
    [] name = "Blur" -> <<"B", "l", "u", "r">>
    [] OTHER -> <<name>>

\* String.prototype.includes
includes(hay, needle) ==
  \E i \in 1..(Len(hay) + 1) :
    /\ i + Len(needle) - 1 <= Len(hay)
    /\ SubSeq(hay, i, i + Len(needle) - 1) = needle

CharRank(c) == CHOOSE i \in 1..Len(Alphabet) : Alphabet[i] = LowerChar(c)

\* String.prototype.localeCompare on names that differ in their letters
RECURSIVE compareChars(_, _)
compareChars(x, y) ==
  IF x = <<>> THEN (IF y = <<>> THEN 0 ELSE -1)
  ELSE IF y = <<>> THEN 1
  ELSE IF CharRank(Head(x)) < CharRank(Head(y)) THEN -1
  ELSE IF CharRank(Head(x)) > CharRank(Head(y)) THEN 1
  ELSE compareChars(Tail(x), Tail(y))

localeCompare(a, b) == compareChars(Chars(a), Chars(b))

-----------------------------------------------------------------------------
(* TrackStore *)

EmptyStore == [artists |-> <<>>, loading |-> FALSE, error |-> NULL]

TrackStore_totalTracks(w) == reduceCount(w.store.artists, 0)

TrackStore_totalArtists(w) == Len(w.store.artists)

TrackStore_topArtists(w) ==
  slice(sort(w.store.artists, [a \in Items(w.store.artists), b \in Items(w.store.artists) |-> b.count - a.count]), 0, 5)

setArtists(w, data) == [w EXCEPT !.store.artists = data, !.store.error = NULL]

removeArtist(w, artistId) ==
  [w EXCEPT !.store.artists = SelectSeq(@, LAMBDA a : a.id # artistId)]

\* { ...artist, ...updates }
Spread(artist, updates) ==
  [f \in DOMAIN artist \cup DOMAIN updates |->
     IF f \in DOMAIN updates THEN updates[f] ELSE artist[f]]

updateArtist(w, artistId, updates) ==
  [w EXCEPT !.store.artists =
     [i \in 1..Len(@) |-> IF @[i].id = artistId THEN Spread(@[i], updates) ELSE @[i]]]

reset(w) == [w EXCEPT !.store = EmptyStore]

-----------------------------------------------------------------------------
(* DashboardComponent *)

Artist(id, name, count) == [id |-> id, name |-> name, count |-> count]

calculateStats(w, data) ==
  [w EXCEPT !.totalArtists = Len(data), !.totalTracks = reduceCount(data, 0)]

\* a chart of the artists with the fewest tracks
setupChartAscending(w, data) ==
  LET sortedArtists == slice(sort(data, [a \in Items(data), b \in Items(data) |-> a.count - b.count]), 0, 5)
  IN [w EXCEPT !.chartData =
        [i \in 1..Len(sortedArtists) |->
           [label |-> sortedArtists[i].name, value |-> sortedArtists[i].count]]]

setupChart(w, data) ==
  LET sortedArtists == slice(sort(data, [a \in Items(data), b \in Items(data) |-> b.count - a.count]), 0, 5)
  IN [w EXCEPT !.chartData =
        [i \in 1..Len(sortedArtists) |->
           [label |-> sortedArtists[i].name, value |-> sortedArtists[i].count]]]

\* the comparator of applyFilter
comparison(w, a, b) ==
  LET c == CASE w.sortColumn = "name" -> localeCompare(a.name, b.name)
             [] w.sortColumn = "count" -> a.count - b.count
             [] OTHER -> 0
  IN IF w.sortDirection = "asc" THEN c ELSE -c

\* a filter that compares the name with the query letter by letter, capitals included
applyFilterCaseSensitive(w) ==
  LET filterValue == Trim(w.searchFilter)
      filtered == IF w.searchFilter # <<>>
                  THEN SelectSeq(w.artists, LAMBDA a : includes(Chars(a.name), filterValue))
                  ELSE w.artists
  IN [w EXCEPT !.filteredArtists = sort(filtered, [a \in Items(filtered), b \in Items(filtered) |-> comparison(w, a, b)]),
               !.currentPage = 1]

applyFilter(w) ==
  LET filterValue == toLowerCase(Trim(w.searchFilter))
      filtered == IF w.searchFilter # <<>>
                  THEN SelectSeq(w.artists,
                                 LAMBDA a : includes(toLowerCase(Chars(a.name)), filterValue))
                  ELSE w.artists
  IN [w EXCEPT !.filteredArtists = sort(filtered, [a \in Items(filtered), b \in Items(filtered) |-> comparison(w, a, b)]),
               !.currentPage = 1]

sortTable(w, column) ==
  applyFilter(IF w.sortColumn = column
              THEN [w EXCEPT !.sortDirection = IF @ = "asc" THEN "desc" ELSE "asc"]
              ELSE [w EXCEPT !.sortColumn = column, !.sortDirection = "asc"])

changePage(w, page) == [w EXCEPT !.currentPage = page]

itemsPerPage == 10

\* Math.ceil(length / itemsPerPage) of a length that is not negative
ceil(length, perPage) == (length + perPage - 1) \div perPage

\* the getter paginatedArtists
paginatedArtists(w) ==
  LET start == (w.currentPage - 1) * itemsPerPage
      end == start + itemsPerPage
  IN slice(w.filteredArtists, start, end)

\* a page count that leaves out the last, shorter page
totalPagesFloor(w) == Len(w.filteredArtists) \div itemsPerPage

\* the getter totalPages
totalPages(w) == ceil(Len(w.filteredArtists), itemsPerPage)

\* the artist summaries the backend may answer with
SummaryLists ==
  { <<>>,
    <<Artist("a1", "Abba", 2)>>,
    <<Artist("a1", "Abba", 2), Artist("a2", "Blur", 1)>> }

loadTrackSummary(w) ==
  LET r == getTrackSummary(UNDEFINED, UNDEFINED)
      w1 == show([w EXCEPT !.isLoading = TRUE])
  IN IF r.threw THEN w1 ELSE subscribe(w1, r.req)

\* finalize of loadTrackSummary
loadTrackSummaryFinalize(w) == [hide(w) EXCEPT !.isLoading = FALSE]

\* a next handler that leaves the statistics as they are
loadTrackSummaryNextStale(w, data) ==
  setupChart(applyFilter([w EXCEPT !.artists = data]), data)

\* a next handler that drops the data while a later summary request is in flight
loadTrackSummaryNextLatestOnly(w, data) ==
  IF \E s \in Slots : w.inflight[s].sub = "loadTrackSummary" THEN w
  ELSE setupChart(calculateStats(applyFilter([w EXCEPT !.artists = data]), data), data)

loadTrackSummaryNext(w, data) ==
  setupChart(calculateStats(applyFilter([w EXCEPT !.artists = data]), data), data)

\* an error handler that loads the summary again
loadTrackSummaryErrorRetry(w) ==
  loadTrackSummary(error(w, "Failed to load track summary"))

loadTrackSummaryError(w) == error(w, "Failed to load track summary")

deleteArtistTracks(w, artist) ==
  open(w, "deleteArtistTracks", "Delete Artist Tracks",
       "Are you sure you want to delete all " \o NumToString(artist.count)
         \o " tracks from " \o artist.name \o "?",
       "Delete", "Cancel", artist)

\* the takeUntilDestroyed of a component that is already destroyed ends the
\* pipe at subscription: nothing is sent and finalize runs at once
deleteArtistTracksResult(w, m, result) ==
  IF result = "true"
  THEN IF m.alive THEN subscribe(show(w), deleteTracksByArtist(m.args))
       ELSE hide(show(w))
  ELSE w

\* a next handler that removes the artist from the list instead of reloading
deleteArtistTracksNextPatch(w, artist) ==
  [success(w, "Successfully deleted tracks from " \o artist.name)
     EXCEPT !.artists = SelectSeq(@, LAMBDA x : x.id # artist.id)]

\* the next handler of the deletion: notify, then reload
deleteArtistTracksNext(w, artist) ==
  loadTrackSummary(success(w, "Successfully deleted tracks from " \o artist.name))

deleteArtistTracksError(w) == error(w, "Failed to delete tracks")

-----------------------------------------------------------------------------
(* DashboardComponentRefactored, rxjs-operators.ts, modal-helper.ts *)

\* the computed signal filteredArtists, over the artists of the store
Refactored_filteredArtists(w) ==
  LET filterValue == toLowerCase(Trim(w.searchFilter))
      filtered == IF filterValue # <<>>
                  THEN SelectSeq(w.store.artists,
                                 LAMBDA a : includes(toLowerCase(Chars(a.name)), filterValue))
                  ELSE w.store.artists
      comparison_(a, b) ==
        LET c == IF w.sortColumn = "name" THEN localeCompare(a.name, b.name)
                 ELSE a.count - b.count
        IN IF w.sortDirection = "asc" THEN c ELSE -c
  IN sort(filtered, [a \in Items(filtered), b \in Items(filtered) |-> comparison_(a, b)])

\* the computed signal paginatedArtists
Refactored_paginatedArtists(w) ==
  LET start == (w.currentPage - 1) * itemsPerPage
      end == start + itemsPerPage
  IN slice(Refactored_filteredArtists(w), start, end)

\* the computed signal totalPages
Refactored_totalPages(w) == ceil(Len(Refactored_filteredArtists(w)), itemsPerPage)

Refactored_applyFilter(w) == [w EXCEPT !.currentPage = 1]

Refactored_sortTable(w, column) ==
  [(IF w.sortColumn = column
    THEN [w EXCEPT !.sortDirection = IF @ = "asc" THEN "desc" ELSE "asc"]
    ELSE [w EXCEPT !.sortColumn = column, !.sortDirection = "asc"])
   EXCEPT !.currentPage = 1]

Refactored_changePage(w, page) == [w EXCEPT !.currentPage = page]

\* withLoading: tap(() => loadingService.show()) runs when a value arrives
withLoadingTap(w) == show(w)

\* withLoading: finalize(() => loadingService.hide())
withLoadingFinalize(w) == hide(w)

\* withErrorHandling: tap({ error: () => notificationService.error(errorMessage) })
withErrorHandling(w, errorMessage) == error(w, errorMessage)

\* loadTrackSummary subscribes to getTrackSummary() through takeUntilDestroyed
\* and withLoadingAndError
Refactored_loadTrackSummary(w) ==
  subscribe(w, [getTrackSummary(UNDEFINED, UNDEFINED).req EXCEPT !.sub = "refactoredLoad"])

\* the next handler of loadTrackSummary
Refactored_loadTrackSummaryNext(w) == [w EXCEPT !.currentPage = 1]

\* a value or an error of the summary request goes through the pipe; the
\* subscriber has no error handler
Refactored_loadTrackSummaryPipe(w, o) ==
  withLoadingFinalize(
    IF o.ok THEN Refactored_loadTrackSummaryNext(withLoadingTap(w))
    ELSE withErrorHandling(w, "Failed to load track summary"))

\* openConfirmDialog: options.confirmText || 'Confirm', options.cancelText || 'Cancel'
openConfirmDialog(w, sub, options, args) ==
  open(w, sub, options.title, options.message,
       IF options.confirmText # "" THEN options.confirmText ELSE "Confirm",
       IF options.cancelText # "" THEN options.cancelText ELSE "Cancel", args)

\* from(modalRef.result): the promise resolves with the value the dialog
\* was closed with and is rejected when the dialog is dismissed
from(result) ==
  CASE result = "true" -> [values |-> <<TRUE>>, error |-> FALSE]
    [] result = "false" -> [values |-> <<FALSE>>, error |-> FALSE]
    [] result = "dismissed" -> [values |-> <<>>, error |-> TRUE]

Refactored_deleteArtistTracks(w, artist) ==
  openConfirmDialog(w, "refactoredDelete",
                    [title |-> "Delete Artist Tracks",
                     message |-> "Are you sure you want to delete all "
                                   \o NumToString(artist.count) \o " tracks from "
                                   \o artist.name \o "?",
                     confirmText |-> "Delete", cancelText |-> "Cancel"],
                    artist)

\* takeUntilDestroyed, filter(confirmed => confirmed) and switchMap of
\* deleteArtistTracks; the subscriber has no error handler
Refactored_deleteArtistTracksResult(w, m, result) ==
  LET confirmed == from(result)
  IN IF ~m.alive \/ confirmed.error \/ confirmed.values # <<TRUE>> THEN w
     ELSE subscribe(w, [deleteTracksByArtist(m.args) EXCEPT !.sub = "refactoredDelete"])

\* the next handler of deleteArtistTracks
Refactored_deleteArtistTracksNext(w, artist) ==
  Refactored_loadTrackSummary(success(w, "Successfully deleted tracks from " \o artist.name))

\* a value or an error of the deletion goes through the inner pipe
Refactored_deleteArtistTracksPipe(w, artist, o) ==
  withLoadingFinalize(
    IF o.ok THEN Refactored_deleteArtistTracksNext(withLoadingTap(w), artist)
    ELSE withErrorHandling(w, "Failed to delete tracks"))

-----------------------------------------------------------------------------
(* TrackManagementComponent *)

EmptyRangeForm == [min |-> NULL, max |-> NULL]

RangePrompt == "Are you sure you want to delete tracks from artists with "

\* a scope phrase built on truthiness, which takes 0 for an absent bound
rangePhraseTruthy(min, max) ==
  IF min.t = "num" /\ min.v # 0 /\ max.t = "num" /\ max.v # 0
    THEN Str(Template(min) \o " to " \o Template(max) \o " tracks?")
  ELSE IF min.t = "num" /\ min.v # 0 THEN Str("at least " \o Template(min) \o " tracks?")
  ELSE IF max.t = "num" /\ max.v # 0 THEN Str("at most " \o Template(max) \o " tracks?")
  ELSE NULL

\* the scope phrase appended to the prompt; NULL when both bounds are absent
rangePhrase(min, max) ==
  IF min # NULL /\ max # NULL
    THEN Str(Template(min) \o " to " \o Template(max) \o " tracks?")
  ELSE IF min # NULL THEN Str("at least " \o Template(min) \o " tracks?")
  ELSE IF max # NULL THEN Str("at most " \o Template(max) \o " tracks?")
  ELSE NULL

\* deleteByRange without the rangeForm.invalid early return
deleteByRangeUnvalidated(w) ==
  LET min == w.rangeForm.min
      max == w.rangeForm.max
      phrase == rangePhrase(min, max)
  IN IF phrase = NULL
     THEN warning(w, "Please specify at least one range value")
     ELSE open(w, "deleteByRange", "Delete Tracks by Range", RangePrompt \o phrase.v,
               "Delete", "Cancel", [min |-> min, max |-> max])

\* TrackManagementComponent.deleteByRange up to the opening of the modal
deleteByRange(w) ==
  IF rangeFormInvalid(w) THEN w
  ELSE LET min == w.rangeForm.min
           max == w.rangeForm.max
           phrase == rangePhrase(min, max)
       IN IF phrase = NULL
          THEN warning(w, "Please specify at least one range value")
          ELSE open(w, "deleteByRange", "Delete Tracks by Range", RangePrompt \o phrase.v,
                    "Delete", "Cancel", [min |-> min, max |-> max])

\* result callbacks that notify the user of a cancellation
deleteByRangeResultLoud(w, m, result) ==
  IF result = "true"
  THEN LET r == deleteTracksByRange(m.args.min, m.args.max)
           w1 == show(w)
       IN IF r.threw THEN w1
          ELSE IF m.alive THEN subscribe(w1, r.req)
          ELSE hide(w1)
  ELSE warning(w, "Deletion cancelled")

\* the `then' callbacks of modalRef.result; an exception thrown by
\* deleteTracksByRange leaves the callback after show()
deleteByRangeResult(w, m, result) ==
  IF result = "true"
  THEN LET r == deleteTracksByRange(m.args.min, m.args.max)
           w1 == show(w)
       IN IF r.threw THEN w1
          ELSE IF m.alive THEN subscribe(w1, r.req)
          ELSE hide(w1)
  ELSE w

deleteByRangeNext(w) ==
  setRangeValue(success(w, "Successfully deleted tracks in the specified range"),
                EmptyRangeForm)

deleteByRangeError(w) == error(w, "Failed to delete tracks")

-----------------------------------------------------------------------------
(* PlaylistsComponent *)

PlaylistActions == {"playlist", "playlistAndLibrary"}

actionCopy ==
  [playlist |->
     [title |-> "Clear playlist tracks",
      message |-> "Remove every track inside the selected playlist. The tracks will remain saved in your library.",
      confirmText |-> "Clear playlist",
      success |-> "Playlist tracks removed successfully",
      error |-> "Unable to remove tracks from playlist. Please try again."],
   playlistAndLibrary |->
     [title |-> "Clear playlist and library",
      message |-> "Remove playlist tracks AND delete the same songs from your saved library. A backup is stored automatically.",
      confirmText |-> "Delete everywhere",
      success |-> "Playlist and library tracks removed successfully",
      error |-> "Unable to delete tracks from playlist and library. Please try again."]]

EmptyPlaylistForm == Str(<<>>)

\* a JavaScript value used as a condition
Truthy(x) == x.t = "str" /\ x.v # ""

handleAction(w, action) ==
  IF playlistFormInvalid(w.playlistForm) THEN w
  ELSE LET playlistId == Trim(w.playlistForm.v)
           copy == actionCopy[action]
       IN IF playlistId = <<>> THEN w
          ELSE open(w, "handleAction", copy.title,
                    copy.message \o "\n\nPlaylist ID: " \o Join(playlistId),
                    copy.confirmText, "Keep tracks",
                    [playlistId |-> playlistId, action |-> action])

handleActionResult(w, m, result) ==
  IF result # "true" THEN w
  ELSE LET w1 == show(w)
           req == IF m.args.action = "playlist"
                  THEN deleteAllPlaylistTracks(m.args.playlistId, m.args)
                  ELSE deleteAllPlaylistAndUserTracks(m.args.playlistId, m.args)
       IN IF m.alive THEN subscribe(w1, req) ELSE hide(w1)

\* a next handler that keeps the record of the first operation
handleActionNextKeepFirst(w, ctx) ==
  [success(w, actionCopy[ctx.action].success)
     EXCEPT !.lastOperation = IF @ = UNDEFINED
                              THEN [t |-> "obj", playlistId |-> ctx.playlistId,
                                    action |-> ctx.action]
                              ELSE @]

\* Date.now() is left out of the record
handleActionNext(w, ctx) ==
  [success(w, actionCopy[ctx.action].success)
     EXCEPT !.lastOperation = [t |-> "obj", playlistId |-> ctx.playlistId,
                                 action |-> ctx.action]]

\* error?.error?.message || copy.error
handleActionError(w, ctx, serverMessage) ==
  error(w, IF Truthy(serverMessage) THEN serverMessage.v ELSE actionCopy[ctx.action].error)

Playlist(id, name) == [id |-> id, name |-> name]

\* the playlist lists the backend may answer with
PlaylistLists == { <<>>, <<Playlist(Rep("7", PlaylistMinLength + 1), "Road Trip")>> }

loadUserPlaylists(w) == subscribe([w EXCEPT !.loadingPlaylists = TRUE], getUserPlaylists)

loadUserPlaylistsNext(w, playlists) ==
  [w EXCEPT !.userPlaylists = playlists, !.loadingPlaylists = FALSE]

loadUserPlaylistsError(w) ==
  [error(w, "Failed to load playlists. You can still enter a playlist ID manually.")
     EXCEPT !.loadingPlaylists = FALSE]

selectPlaylist(w, playlist) ==
  [w EXCEPT !.selectedPlaylistId = Str(playlist.id), !.playlistForm = Str(playlist.id)]

resetForm(w) == [w EXCEPT !.playlistForm = NULL, !.selectedPlaylistId = NULL]

-----------------------------------------------------------------------------
(* AuthService, authInterceptor, authGuard *)

checkAuthStatus == Request("GET", "/auth/is-auth", {}, "authGuard", NULL)

setAuth(w, isAuth) ==
  [w EXCEPT !.isAuthenticated = isAuth, !.storedAuth = IF isAuth THEN Str("true") ELSE NULL]

\* map(response => response.success) and tap of checkAuthStatus; the value emitted
checkAuthStatusNext(w, response) ==
  [setAuth(w, response.success) EXCEPT !.emit = response.success]

\* a catchError that lets the guard pass when the status check fails
checkAuthStatusCatchOpen(w) == [setAuth(w, FALSE) EXCEPT !.emit = TRUE]

\* catchError of checkAuthStatus, which emits false
checkAuthStatusCatch(w) == [setAuth(w, FALSE) EXCEPT !.emit = FALSE]

\* router.navigate([url]), with the caller
navigate(w, by, url) == [w EXCEPT !.navCalls = Append(@, [by |-> by, url |-> url])]

\* the constructor calls checkAuthStatus() and drops the observable it
\* returns: HttpClient sends a request when the observable is subscribed to
AuthService_constructor(w) ==
  LET unsubscribed == checkAuthStatus
  IN [w EXCEPT !.isAuthenticated = FALSE, !.currentUser = NULL]

handleCallback(code) ==
  Request("GET", "/auth/callback", {<<"code", code>>}, "handleCallback", NULL)

\* tap of handleCallback
handleCallbackTap(w, response) ==
  IF response.success
  THEN [w EXCEPT !.isAuthenticated = TRUE, !.storedAuth = Str("true")]
  ELSE w

logout == Request("POST", "/auth/logout", {}, "logout", NULL)

\* a tap of logout that leaves the key in localStorage
logoutTapKeepKey(w) ==
  navigate([w EXCEPT !.isAuthenticated = FALSE, !.currentUser = NULL],
           "AuthService.logout", "/login")

\* tap of logout, which runs on a response and not on an error
logoutTap(w) ==
  navigate([w EXCEPT !.isAuthenticated = FALSE, !.currentUser = NULL, !.storedAuth = NULL],
           "AuthService.logout", "/login")

\* request.url.includes('/auth/is-auth')
isAuthCheck(req) == req.url = "/auth/is-auth"

\* a catchError that treats a 401 of the status check like any other 401
authInterceptorNoExemption(w, req, status) ==
  IF status = 401
  THEN navigate(error(w, "Session expired. Please login again."),
                "authInterceptor", "/login")
  ELSE IF status = 500 THEN error(w, "Server error occurred. Please try again.")
  ELSE IF status = 0
    THEN error(w, "Unable to connect to server. Please check your connection.")
  ELSE w

\* a catchError that leaves a 500 to the calling view
authInterceptorQuiet(w, req, status) ==
  IF status = 401
  THEN IF ~isAuthCheck(req)
       THEN navigate(error(w, "Session expired. Please login again."),
                     "authInterceptor", "/login")
       ELSE w
  ELSE IF status = 0
    THEN error(w, "Unable to connect to server. Please check your connection.")
  ELSE w

\* catchError of the interceptor; the error is re-thrown by the caller
authInterceptor(w, req, status) ==
  IF status = 401
  THEN IF ~isAuthCheck(req)
       THEN navigate(error(w, "Session expired. Please login again."),
                     "authInterceptor", "/login")
       ELSE w
  ELSE IF status = 500 THEN error(w, "Server error occurred. Please try again.")
  ELSE IF status = 0
    THEN error(w, "Unable to connect to server. Please check your connection.")
  ELSE w

UrlTree(url) == [t |-> "UrlTree", url |-> url]
ALLOW == [t |-> "true"]

\* the map of authGuard
authGuard(w, isAuth) ==
  [w EXCEPT !.decisions = Append(@, IF isAuth THEN ALLOW ELSE UrlTree("/login"))]

-----------------------------------------------------------------------------
(* CallbackComponent, MainLayoutComponent *)

\* the values of the query parameter `code' of the callback URL
Codes == {UNDEFINED, Str("AQB7")}

\* the status check as the callback view subscribes to it
callbackCheck == [checkAuthStatus EXCEPT !.sub = "callbackCheck"]

\* the subscriber of route.queryParams
ngOnInit(w, code) ==
  IF Truthy(code) THEN subscribe(w, handleCallback(code.v))
  ELSE subscribe(w, callbackCheck)

handleCallbackNext(w) ==
  navigate(success(w, "Successfully logged in to Spotify!"), "CallbackComponent", "/dashboard")

handleCallbackError(w) ==
  navigate(error(w, "Failed to authenticate with Spotify"), "CallbackComponent", "/login")

callbackCheckNext(w, isAuth) ==
  IF isAuth
  THEN navigate(success(w, "Successfully logged in to Spotify!"),
                "CallbackComponent", "/dashboard")
  ELSE navigate(error(w, "Authentication failed"), "CallbackComponent", "/login")

\* MainLayoutComponent.logout
layoutLogout(w) == subscribe(w, logout)

-----------------------------------------------------------------------------
(* Router: the routes table, component construction and destruction *)

Protected == {"dashboard", "tracks", "playlists"}
Views == {"login"} \cup Protected

\* the subscriptions each component pipes through takeUntilDestroyed
SubsOf(view) ==
  CASE view = "dashboard" -> {"loadTrackSummary", "deleteArtistTracks"}
    [] view = "tracks" -> {"deleteByRange"}
    [] view = "playlists" -> {"loadUserPlaylists", "handleAction"}
    [] view = "callback" -> {"handleCallback", "callbackCheck"}
    [] view = "dashboardRefactored" -> {"refactoredLoad", "refactoredDelete"}
    [] OTHER -> {}

\* the subscription MainLayoutComponent pipes through takeUntilDestroyed
LayoutSubs == {"logout"}

\* the subscriptions whose finalize hides the loading indicator
HidesOnFinalize ==
  {"loadTrackSummary", "deleteArtistTracks", "deleteByRange", "handleAction",
   "refactoredLoad", "refactoredDelete"}

\* a teardown that leaves the component's subscriptions alone
DestroyLeaky(w) ==
  [w EXCEPT !.modal = IF @ = NoModal THEN @ ELSE [@ EXCEPT !.alive = FALSE],
            !.rangeForm = EmptyRangeForm,
            !.rangeErrors = NULL,
            !.playlistForm = EmptyPlaylistForm,
            !.userPlaylists = <<>>,
            !.selectedPlaylistId = NULL,
            !.loadingPlaylists = FALSE,
            !.lastOperation = UNDEFINED,
            !.artists = <<>>,
            !.isLoading = FALSE,
            !.filteredArtists = <<>>,
            !.searchFilter = <<>>,
            !.currentPage = 1,
            !.sortColumn = "name",
            !.sortDirection = "asc",
            !.totalTracks = 0,
            !.totalArtists = 0,
            !.chartData = <<>>]

\* ngOnDestroy of the routed component: takeUntilDestroyed unsubscribes its
\* requests (HttpClient aborts them) and their finalize callbacks run
Destroy(w) ==
  LET mine == {s \in Slots : w.inflight[s].sub \in SubsOf(w.route)}
      kept == SelectSeq(w.inflight, LAMBDA r : r.sub \notin SubsOf(w.route))
      w1 == [w EXCEPT !.inflight = [s \in Slots |-> IF s <= Len(kept) THEN kept[s] ELSE FREE],
                      !.modal = IF @ = NoModal THEN @ ELSE [@ EXCEPT !.alive = FALSE],
                      !.rangeForm = EmptyRangeForm,
                      !.rangeErrors = NULL,
                      !.playlistForm = EmptyPlaylistForm,
                      !.userPlaylists = <<>>,
                      !.selectedPlaylistId = NULL,
                      !.loadingPlaylists = FALSE,
                      !.lastOperation = UNDEFINED,
                      !.artists = <<>>,
                      !.isLoading = FALSE,
                      !.filteredArtists = <<>>,
                      !.searchFilter = <<>>,
                      !.currentPage = 1,
                      !.sortColumn = "name",
                      !.sortDirection = "asc",
                      !.totalTracks = 0,
                      !.totalArtists = 0,
                      !.chartData = <<>>]
  IN IF \E s \in mine : w.inflight[s].sub \in HidesOnFinalize THEN hide(w1) ELSE w1

\* the subscriptions of the routed component with a request in flight
Aborted(w) == {w.inflight[s].sub : s \in Slots} \cap SubsOf(w.route)

\* the layout of the protected area is destroyed when the area is left
DestroyLayout(w) ==
  LET kept == SelectSeq(w.inflight, LAMBDA r : r.sub \notin LayoutSubs)
  IN [w EXCEPT !.inflight = [s \in Slots |-> IF s <= Len(kept) THEN kept[s] ELSE FREE]]

\* the components a navigation to the target destroys
Leave(w, target) ==
  IF w.route \in Protected /\ target \notin Protected
  THEN DestroyLayout(Destroy(w))
  ELSE Destroy(w)

\* construction of the routed component, with its constructor and ngOnInit
Enter(w, view) ==
  LET w1 == [w EXCEPT !.route = view]
  IN CASE view = "dashboard" -> loadTrackSummary(w1)
       [] view = "playlists" -> loadUserPlaylists(w1)
       [] view = "dashboardRefactored" -> Refactored_loadTrackSummary(w1)
       [] OTHER -> w1

\* the router carries out the navigation the handler asked for; a later
\* router.navigate supersedes an earlier one, and the guard of the protected
\* area runs before a view of the area replaces a public one
settle(w) ==
  IF w.navCalls = <<>> THEN w
  ELSE LET url == w.navCalls[Len(w.navCalls)].url
       IN IF url = "/login"
          THEN IF w.route = "login" THEN w ELSE Enter(Leave(w, "login"), "login")
          ELSE subscribe([w EXCEPT !.guard = "dashboard"], checkAuthStatus)

\* the router acts on the value the guard emitted
activate(w) ==
  LET w1 == [w EXCEPT !.guard = "none"]
  IN IF w.decisions # <<>> /\ w.decisions[Len(w.decisions)] = ALLOW
     THEN Enter(Leave(w1, w.guard), w.guard)
     ELSE IF w.route = "login" THEN w1
     ELSE Enter(Leave(w1, "login"), "login")

-----------------------------------------------------------------------------
(* HTTP responses *)

Statuses == {0, 401, 404, 500}

ServerMessages == {UNDEFINED, Str("Spotify rate limit reached")}

ErrorOutcomes ==
  {[ok |-> FALSE, status |-> st, message |-> m, body |-> NULL] :
     st \in Statuses, m \in ServerMessages} \ 
  {[ok |-> FALSE, status |-> 0, message |-> m, body |-> NULL] :
     m \in ServerMessages \ {UNDEFINED}}

Ok(body) == [ok |-> TRUE, status |-> 200, message |-> UNDEFINED, body |-> body]

ApiResponses == {[success |-> b] : b \in BOOLEAN}

Outcomes(req) ==
  ErrorOutcomes \cup
  CASE req.sub = "loadTrackSummary" -> {Ok(l) : l \in SummaryLists}
    [] req.sub = "loadUserPlaylists" -> {Ok(l) : l \in PlaylistLists}
    [] OTHER -> {Ok(r) : r \in ApiResponses}

\* the response passes the interceptor, then the subscriber's pipe
deliver(w, s, o) ==
  LET req == w.inflight[s]
      w0 == complete(w, s)
      w1 == IF o.ok THEN w0 ELSE authInterceptor(w0, req, o.status)
  IN CASE req.sub = "loadTrackSummary" ->
            loadTrackSummaryFinalize(
              IF o.ok THEN loadTrackSummaryNext(w1, o.body) ELSE loadTrackSummaryError(w1))
       [] req.sub = "deleteArtistTracks" ->
            hide(IF o.ok THEN deleteArtistTracksNext(w1, req.ctx)
                 ELSE deleteArtistTracksError(w1))
       [] req.sub = "deleteByRange" ->
            hide(IF o.ok THEN deleteByRangeNext(w1) ELSE deleteByRangeError(w1))
       [] req.sub = "loadUserPlaylists" ->
            IF o.ok THEN loadUserPlaylistsNext(w1, o.body) ELSE loadUserPlaylistsError(w1)
       [] req.sub = "handleAction" ->
            hide(IF o.ok THEN handleActionNext(w1, req.ctx)
                 ELSE handleActionError(w1, req.ctx, o.message))
       [] req.sub = "handleCallback" ->
            IF o.ok THEN handleCallbackNext(handleCallbackTap(w1, o.body))
            ELSE handleCallbackError(w1)
       [] req.sub = "callbackCheck" ->
            LET w2 == IF o.ok THEN checkAuthStatusNext(w1, o.body)
                      ELSE checkAuthStatusCatch(w1)
            IN callbackCheckNext(w2, w2.emit)
       [] req.sub = "logout" ->
            IF o.ok THEN logoutTap(w1) ELSE w1
       [] req.sub = "refactoredLoad" -> Refactored_loadTrackSummaryPipe(w1, o)
       [] req.sub = "refactoredDelete" -> Refactored_deleteArtistTracksPipe(w1, req.ctx, o)
       [] req.sub = "authGuard" ->
            LET w2 == IF o.ok THEN checkAuthStatusNext(w1, o.body)
                      ELSE checkAuthStatusCatch(w1)
            IN activate(authGuard(w2, w2.emit))

-----------------------------------------------------------------------------
(* Initial state: the application has started on the public login view *)

\* the application before its services are constructed
Fresh(stored) ==
  [route |-> "login", guard |-> "none", isAuthenticated |-> FALSE,
   currentUser |-> NULL, storedAuth |-> stored, rangeForm |-> EmptyRangeForm,
   rangeErrors |-> NULL, playlistForm |-> EmptyPlaylistForm, userPlaylists |-> <<>>,
   selectedPlaylistId |-> NULL, loadingPlaylists |-> FALSE, lastOperation |-> UNDEFINED,
   artists |-> <<>>, isLoading |-> FALSE, filteredArtists |-> <<>>,
   searchFilter |-> <<>>, currentPage |-> 1, sortColumn |-> "name",
   sortDirection |-> "asc", totalTracks |-> 0, totalArtists |-> 0, chartData |-> <<>>,
   store |-> EmptyStore, modal |-> NoModal, inflight |-> [s \in Slots |-> FREE],
   loading |-> FALSE, toasts |-> <<>>, navCalls |-> <<>>, decisions |-> <<>>,
   emit |-> NULL, overflow |-> FALSE]

\* the page load: the root services are constructed
Load(stored) == AuthService_constructor(Fresh(stored))

\* the variables hold the state w, which no handler has touched yet
InitialState(w) ==
  /\ route = w.route
  /\ guard = w.guard
  /\ isAuthenticated = w.isAuthenticated
  /\ currentUser = w.currentUser
  /\ storedAuth = w.storedAuth
  /\ rangeForm = w.rangeForm
  /\ rangeErrors = w.rangeErrors
  /\ playlistForm = w.playlistForm
  /\ userPlaylists = w.userPlaylists
  /\ selectedPlaylistId = w.selectedPlaylistId
  /\ loadingPlaylists = w.loadingPlaylists
  /\ lastOperation = w.lastOperation
  /\ artists = w.artists
  /\ isLoading = w.isLoading
  /\ filteredArtists = w.filteredArtists
  /\ searchFilter = w.searchFilter
  /\ currentPage = w.currentPage
  /\ sortColumn = w.sortColumn
  /\ sortDirection = w.sortDirection
  /\ totalTracks = w.totalTracks
  /\ totalArtists = w.totalArtists
  /\ chartData = w.chartData
  /\ store = w.store
  /\ modal = w.modal
  /\ inflight = w.inflight
  /\ loading = w.loading
  /\ toasts = w.toasts
  /\ navCalls = w.navCalls
  /\ decisions = w.decisions
  /\ last = [op |-> "init"]

Init == \E stored \in {NULL, Str("true")} : InitialState(Load(stored))

-----------------------------------------------------------------------------
(* User input *)

\* what a user can type into a field of the range form
RangeInputs == {NULL} \cup {Num(n) : n \in -1..MaxBound}

\* what a user can type into the playlist id field
PlaylistInputs ==
  { Str(<<>>),
    Str(Rep("a", PlaylistMinLength - 1)),
    Str(Rep("a", PlaylistMinLength)),
    Str(Rep("B", PlaylistMinLength - 1) \o <<"-">>),
    Str(<<" ">> \o Rep("7", PlaylistMinLength)),
    Str(Rep(" ", PlaylistMinLength)) }

\* the modal's backdrop keeps the user from the view underneath
Interactive(view) == route = view /\ modal = NoModal

-----------------------------------------------------------------------------
(* Actions *)

\* a link of the layout, or the login flow returning to a protected URL;
\* the guard of the parent route runs when the protected area is entered
Navigate ==
  \E target \in Views :
    /\ route \in Views
    /\ modal = NoModal
    /\ guard = "none"
    /\ target # route
    /\ IF route \in Protected
       THEN Apply(Enter(Leave(W, target), target),
                  [op |-> "navigate", target |-> target, aborted |-> Aborted(W)])
       ELSE Apply(subscribe([W EXCEPT !.guard = target], checkAuthStatus),
                  [op |-> "navigate", target |-> target, aborted |-> {}])

\* `Login with Spotify' leaves the application; the backend sends the
\* browser back to /callback, where the application is loaded anew
Login ==
  /\ route = "login"
  /\ \E code \in Codes :
       Apply(ngOnInit([Load(storedAuth) EXCEPT !.route = "callback"], code),
             [op |-> "login", code |-> code])

Logout ==
  /\ route \in Protected
  /\ modal = NoModal
  /\ Apply(layoutLogout(W), [op |-> "logout"])

DeleteArtistTracks ==
  /\ Interactive("dashboard")
  /\ \E i \in 1..Len(artists) :
       Apply(deleteArtistTracks(W, artists[i]),
             [op |-> "deleteArtistTracks", artist |-> artists[i]])

EditRange ==
  /\ Interactive("tracks")
  /\ \E min \in RangeInputs, max \in RangeInputs :
       /\ [min |-> min, max |-> max] # rangeForm
       /\ Apply(setRangeValue(W, [min |-> min, max |-> max]), [op |-> "editRange"])

DeleteByRange ==
  /\ Interactive("tracks")
  /\ Apply(deleteByRange(W), [op |-> "deleteByRange", form |-> rangeForm])

EditPlaylist ==
  /\ Interactive("playlists")
  /\ \E v \in PlaylistInputs :
       /\ v # playlistForm
       /\ Apply([W EXCEPT !.playlistForm = v], [op |-> "editPlaylist"])

SelectPlaylist ==
  /\ Interactive("playlists")
  /\ \E i \in 1..Len(userPlaylists) :
       Apply(selectPlaylist(W, userPlaylists[i]), [op |-> "selectPlaylist"])

ResetForm ==
  /\ Interactive("playlists")
  /\ Apply(resetForm(W), [op |-> "resetForm"])

HandleAction ==
  /\ Interactive("playlists")
  /\ \E action \in PlaylistActions :
       Apply(handleAction(W, action),
             [op |-> "handleAction", action |-> action, form |-> playlistForm])

\* the user closes the modal; the callbacks of modalRef.result run
CloseModal ==
  /\ modal # NoModal
  /\ \E result \in ModalResults :
       LET w == [W EXCEPT !.modal = NoModal]
       IN Apply(CASE modal.sub = "deleteArtistTracks" -> deleteArtistTracksResult(w, modal, result)
                  [] modal.sub = "deleteByRange" -> deleteByRangeResult(w, modal, result)
                  [] modal.sub = "handleAction" -> handleActionResult(w, modal, result),
                [op |-> "closeModal", modal |-> modal, result |-> result])

Response ==
  \E s \in Slots :
    /\ inflight[s] # FREE
    /\ \E o \in Outcomes(inflight[s]) :
         Apply(settle(deliver(W, s, o)),
               [op |-> "response", sub |-> inflight[s].sub, ctx |-> inflight[s].ctx,
                outcome |-> o])

Next ==
  \/ Navigate
  \/ Login
  \/ Logout
  \/ DeleteArtistTracks
  \/ EditRange
  \/ DeleteByRange
  \/ EditPlaylist
  \/ SelectPlaylist
  \/ ResetForm
  \/ HandleAction
  \/ CloseModal
  \/ Response

Spec == Init /\ [][Next]_vars

-----------------------------------------------------------------------------
(* The range form on its own: every pair of bounds a user can enter goes   *)
(* through the value change that runs rangeValidator.                      *)

\* largest track count entered when the validator is checked on its own
MaxCount == 9

CountInputs == {NULL} \cup {Num(n) : n \in 0..MaxCount}

ValidatorNext ==
  \E min \in CountInputs, max \in CountInputs :
    Apply([setRangeValue(W, [min |-> min, max |-> max]) EXCEPT !.route = "tracks"],
          [op |-> "editRange"])

ValidatorInit == Init /\ storedAuth = NULL

ValidatorSpec == ValidatorInit /\ [][ValidatorNext]_vars

-----------------------------------------------------------------------------
(* The dashboard on its own: the component is constructed for a signed-in  *)
(* user, as DashboardComponent or as the store-based                       *)
(* DashboardComponentRefactored, and the summary data ranges over longer   *)
(* lists, with equal counts among them.                                    *)

\* longest artist list the backend answers with
MaxArtists == 6

Letters == <<"a", "b", "c", "d", "e", "f", "g", "h">>

\* track counts of the artists a, b, c, ...: distinct ones and equal ones
CountSeries ==
  { <<10, 3, 7, 1, 9, 2, 7, 3>>,
    <<2, 1, 2, 1, 2, 1, 2, 1>> }

\* the lengths of the lists: shorter and longer than the five entries of the chart
ListLengths == {0, 4} \cup 6..MaxArtists

DashboardLists ==
  { [i \in 1..n |-> Artist(Letters[i], Letters[i], c[i])] :
      n \in ListLengths, c \in CountSeries }

\* what a user can type into the search box
SearchInputs == { <<>>, <<" ", "B">> }

SortColumns == {"name", "count"}

Pages == 1..2

\* the changes updateArtist is called with
ArtistUpdates == { [count |-> 0] }

DashboardInit ==
  \E view \in {"dashboard", "dashboardRefactored"} :
    LET w == [Load(Str("true")) EXCEPT !.isAuthenticated = TRUE]
    IN InitialState(Enter(w, view))

\* the answer to a summary request of DashboardComponent
SummaryResponse ==
  \E s \in Slots :
    /\ inflight[s].sub = "loadTrackSummary"
    /\ \E o \in {Ok(l) : l \in DashboardLists}
                \cup {[ok |-> FALSE, status |-> 500, message |-> UNDEFINED, body |-> NULL]} :
         Apply(settle(deliver(W, s, o)),
               [op |-> "response", sub |-> inflight[s].sub, ctx |-> inflight[s].ctx,
                outcome |-> o])

DeletionResponse ==
  \E s \in Slots :
    /\ inflight[s].sub = "deleteArtistTracks"
    /\ \E o \in {Ok([success |-> TRUE]),
                 [ok |-> FALSE, status |-> 404, message |-> UNDEFINED, body |-> NULL]} :
         Apply(settle(deliver(W, s, o)),
               [op |-> "response", sub |-> inflight[s].sub, ctx |-> inflight[s].ctx,
                outcome |-> o])

\* the delete button of the first artist of the list
DeleteFirstArtist ==
  /\ Interactive("dashboard")
  /\ artists # <<>>
  /\ Apply(deleteArtistTracks(W, artists[1]),
           [op |-> "deleteArtistTracks", artist |-> artists[1]])

\* the search box is bound to searchFilter and calls applyFilter
Search ==
  /\ Interactive("dashboard")
  /\ \E f \in SearchInputs :
       Apply(applyFilter([W EXCEPT !.searchFilter = f]),
             [op |-> "applyFilter", list |-> artists])

SortTable ==
  /\ Interactive("dashboard")
  /\ \E column \in SortColumns :
       Apply(sortTable(W, column), [op |-> "sortTable", list |-> artists])

ChangePage ==
  /\ Interactive("dashboard")
  /\ \E page \in Pages : Apply(changePage(W, page), [op |-> "changePage"])

SetArtists ==
  /\ route = "dashboardRefactored"
  /\ \E data \in DashboardLists : Apply(setArtists(W, data), [op |-> "setArtists"])

RemoveArtist ==
  /\ route = "dashboardRefactored"
  /\ \E i \in 1..Len(store.artists) :
       Apply(removeArtist(W, store.artists[i].id), [op |-> "removeArtist"])

UpdateArtist ==
  /\ route = "dashboardRefactored"
  /\ \E i \in 1..Len(store.artists), updates \in ArtistUpdates :
       Apply(updateArtist(W, store.artists[i].id, updates), [op |-> "updateArtist"])

ResetStore ==
  /\ route = "dashboardRefactored"
  /\ Apply(reset(W), [op |-> "reset"])

DashboardNext ==
  \/ SummaryResponse
  \/ DeleteFirstArtist
  \/ CloseModal
  \/ DeletionResponse
  \/ Search
  \/ SortTable
  \/ ChangePage
  \/ SetArtists
  \/ RemoveArtist
  \/ UpdateArtist
  \/ ResetStore

DashboardSpec == DashboardInit /\ [][DashboardNext]_vars

-----------------------------------------------------------------------------
(* The table of the dashboard on its own: lists longer than two pages,     *)
(* queries with blanks and capitals, and page numbers on both sides of the *)
(* pages there are, for DashboardComponent and for                         *)
(* DashboardComponentRefactored (whose list is the store's).               *)

\* longest artist list of the table
MaxItems == 23

\* the artists a, b, c, ... with counts that repeat
TableArtist(i) == Artist(Alphabet[i], Alphabet[i], ((i * 7) % 5) + 1)

TableLengths == {3, 11} \cup 23..MaxItems

TableLists == SummaryLists \cup { [i \in 1..n |-> TableArtist(i)] : n \in TableLengths }

\* what a user can type into the search box
TableQueries == { <<>>, <<" ">>, <<" ", "B">>, <<"b", "B">> }

\* the page numbers changePage is called with
PageInputs == -2..4

TableResponse ==
  \E s \in Slots :
    /\ inflight[s].sub \in {"loadTrackSummary", "refactoredLoad"}
    /\ \E l \in TableLists :
         Apply(settle(deliver(W, s, Ok(l))),
               [op |-> "response", sub |-> inflight[s].sub, ctx |-> inflight[s].ctx])

\* a caller of the store provides the list of the refactored dashboard
TableSetArtists ==
  /\ route = "dashboardRefactored"
  /\ \E data \in TableLists : Apply(setArtists(W, data), [op |-> "setArtists"])

TableSearch ==
  /\ Interactive("dashboard")
  /\ \E f \in TableQueries :
       Apply(applyFilter([W EXCEPT !.searchFilter = f]),
             [op |-> "applyFilter", list |-> artists])

TableChangePage ==
  /\ Interactive("dashboard")
  /\ \E page \in PageInputs : Apply(changePage(W, page), [op |-> "changePage", page |-> page])

\* the search box is bound to the signal searchFilter and calls applyFilter
RefactoredSearch ==
  /\ Interactive("dashboardRefactored")
  /\ \E f \in TableQueries :
       Apply(Refactored_applyFilter([W EXCEPT !.searchFilter = f]),
             [op |-> "applyFilter", list |-> store.artists])

RefactoredSortTable ==
  /\ Interactive("dashboardRefactored")
  /\ \E column \in SortColumns :
       Apply(Refactored_sortTable(W, column), [op |-> "sortTable", list |-> store.artists])

RefactoredChangePage ==
  /\ Interactive("dashboardRefactored")
  /\ \E page \in PageInputs :
       Apply(Refactored_changePage(W, page), [op |-> "changePage", page |-> page])

TableNext ==
  \/ TableResponse
  \/ TableSetArtists
  \/ TableSearch
  \/ SortTable
  \/ TableChangePage
  \/ RefactoredSearch
  \/ RefactoredSortTable
  \/ RefactoredChangePage

TableSpec == DashboardInit /\ [][TableNext]_vars

-----------------------------------------------------------------------------
(* DashboardComponentRefactored on its own: the component is constructed   *)
(* for a signed-in user, its requests are answered, a caller of the store  *)
(* provides artists and the user deletes the first of them.                *)

RefactoredInit ==
  InitialState(Enter([Load(Str("true")) EXCEPT !.isAuthenticated = TRUE],
                     "dashboardRefactored"))

RefactoredOutcomes(req) ==
  IF req.sub = "refactoredLoad"
  THEN {Ok(l) : l \in SummaryLists}
         \cup {[ok |-> FALSE, status |-> 500, message |-> UNDEFINED, body |-> NULL]}
  ELSE {Ok([success |-> TRUE]),
        [ok |-> FALSE, status |-> 404, message |-> UNDEFINED, body |-> NULL]}

RefactoredResponse ==
  \E s \in Slots :
    /\ inflight[s].sub \in SubsOf("dashboardRefactored")
    /\ \E o \in RefactoredOutcomes(inflight[s]) :
         Apply(settle(deliver(W, s, o)),
               [op |-> "response", sub |-> inflight[s].sub, ctx |-> inflight[s].ctx,
                outcome |-> o])

\* the delete button of the first artist of the list
RefactoredDeleteFirstArtist ==
  /\ Interactive("dashboardRefactored")
  /\ store.artists # <<>>
  /\ Apply(Refactored_deleteArtistTracks(W, store.artists[1]),
           [op |-> "deleteArtistTracks", artist |-> store.artists[1]])

\* the user closes the dialog; `stream' is what the observable returned by
\* openConfirmDialog does
CloseConfirmDialog ==
  /\ modal.sub = "refactoredDelete"
  /\ \E result \in ModalResults :
       Apply(Refactored_deleteArtistTracksResult([W EXCEPT !.modal = NoModal], modal, result),
             [op |-> "closeModal", modal |-> modal, result |-> result,
              stream |-> from(result)])

RefactoredNext ==
  \/ RefactoredResponse
  \/ SetArtists
  \/ RefactoredDeleteFirstArtist
  \/ CloseConfirmDialog

RefactoredSpec == RefactoredInit /\ [][RefactoredNext]_vars

-----------------------------------------------------------------------------
(* Vocabulary of the claims *)

Idle == \A s \in Slots : inflight[s] = FREE

ShowsLoading == {"loadTrackSummary", "deleteArtistTracks", "deleteByRange", "handleAction"}

\* the step is the closing of a modal of the given workflows with the given results
Closes(subs, results) ==
  /\ last'.op = "closeModal"
  /\ last'.modal.sub \in subs
  /\ last'.result \in results

\* the step is the response to a request of the given subscribers
Answers(subs) == last'.op = "response" /\ last'.sub \in subs

Answered(subs) == last.op = "response" /\ last.sub \in subs

\* the step adds exactly the request r to the requests in flight
IssuesOnly(r) ==
  \E s \in Slots :
    /\ inflight[s] = FREE
    /\ inflight'[s] = r
    /\ \A t \in Slots \ {s} : inflight'[t] = inflight[t]

\* the bounds a user provided, as query parameters
ProvidedBounds(min, max) ==
  {<<"min", NumToString(min.v)>> : x \in {min} \ {NULL}}
    \cup {<<"max", NumToString(max.v)>> : x \in {max} \ {NULL}}

-----------------------------------------------------------------------------
(* C1: every confirmation of a deletion prompt issues exactly one DELETE:  *)
(* /track/by-artist/{id} for an artist, /track/by-range with exactly the   *)
(* bounds the user provided for a range.                                   *)

C1_ConfirmationIssuesOneDeletion ==
  [][Closes({"deleteArtistTracks", "deleteByRange"}, {"true"}) =>
       IF last'.modal.sub = "deleteArtistTracks"
       THEN IssuesOnly(Request("DELETE", "/track/by-artist/" \o last'.modal.args.id, {},
                               "deleteArtistTracks", last'.modal.args))
       ELSE IssuesOnly(Request("DELETE", "/track/by-range",
                               ProvidedBounds(last'.modal.args.min, last'.modal.args.max),
                               "deleteByRange", NULL))]_vars

-----------------------------------------------------------------------------
(* C2: closing a prompt by cancel or dismissal issues no request, leaves   *)
(* the loading indicator alone, raises no notification and no navigation,  *)
(* and leaves no prompt open.                                              *)

C2_CancelDoesNothing ==
  [][Closes({"deleteArtistTracks", "deleteByRange", "handleAction"}, {"false", "dismissed"}) =>
       /\ inflight' = inflight
       /\ loading' = loading
       /\ toasts' = <<>>
       /\ navCalls' = <<>>
       /\ modal' = NoModal]_vars

C2_Witness ==
  /\ last.op = "closeModal"
  /\ last.modal.sub = "deleteByRange"
  /\ last.result = "dismissed"
  /\ modal = NoModal

-----------------------------------------------------------------------------
(* C3: an invalid range form (min > max, or a negative bound) or an        *)
(* invalid playlist form (empty, not alphanumeric, shorter than 10) opens  *)
(* no prompt and issues no request, and no by-range request in flight has  *)
(* min > max.                                                              *)

InvalidRangeAsStated(f) ==
  \/ f.min # NULL /\ f.max # NULL /\ f.min.v > f.max.v
  \/ f.min # NULL /\ f.min.v < 0
  \/ f.max # NULL /\ f.max.v < 0

InvalidPlaylistAsStated(x) ==
  \/ x = NULL
  \/ x.v = <<>>
  \/ \E i \in 1..Len(x.v) : x.v[i] \notin AlnumChars
  \/ Len(x.v) < 10

NoReversedRangeInFlight ==
  \A s \in Slots : \A a, b \in -1..(MaxBound + 1) :
    (inflight[s].url = "/track/by-range"
       /\ {<<"min", NumToString(a)>>, <<"max", NumToString(b)>>} \subseteq inflight[s].params)
      => a <= b

C3_ValidationStopsRequests ==
  /\ [][(\/ last'.op = "deleteByRange" /\ InvalidRangeAsStated(last'.form)
         \/ last'.op = "handleAction" /\ InvalidPlaylistAsStated(last'.form)) =>
          /\ modal' = NoModal
          /\ inflight' = inflight
          /\ toasts' = <<>>]_vars
  /\ []NoReversedRangeInFlight

C3_Witness ==
  /\ last.op = "deleteByRange"
  /\ last.form.min = Num(1)
  /\ last.form.max = Num(0)
  /\ modal = NoModal

-----------------------------------------------------------------------------
(* C4: after a confirmed deletion the loading indicator is hidden again:   *)
(* once no request is in flight any more, loading is false.                *)

C4_LoadingHiddenWhenIdle == Idle => loading = FALSE

-----------------------------------------------------------------------------
(* C5: while a request started together with loadingService.show() is in   *)
(* flight, loading is true.                                                *)

C5_LoadingWhileInFlight ==
  (\E s \in Slots : inflight[s].sub \in ShowsLoading) => loading = TRUE

-----------------------------------------------------------------------------
(* C6: a successful deletion shows a success notification; after a         *)
(* deletion by artist the same handler issues a new GET /track/summary and *)
(* the list changes only by being replaced with the data of a successful   *)
(* summary response (or by the view going away); after a deletion by range *)
(* the form is reset and no summary request is issued.                     *)

SummaryRequest == Request("GET", "/track/summary", {}, "loadTrackSummary", NULL)

HasSuccessToast(ts) == \E i \in 1..Len(ts) : ts[i].level = "success"

InFlight(reqs, r) == Cardinality({s \in Slots : reqs[s] = r})

ReloadIssued == InFlight(inflight', SummaryRequest) = InFlight(inflight, SummaryRequest) + 1

ListOnlyReplaced ==
  artists' # artists =>
    \/ route' # "dashboard"
    \/ /\ Answers({"loadTrackSummary"})
       /\ last'.outcome.ok
       /\ artists' = last'.outcome.body

C6_OriginalReloadAfterAnyDeletion ==
  [][(Answers({"deleteArtistTracks", "deleteByRange"}) /\ last'.outcome.ok) =>
       HasSuccessToast(toasts') /\ ReloadIssued]_vars

C6_ReloadAfterArtistDeletion ==
  /\ [][(Answers({"deleteArtistTracks"}) /\ last'.outcome.ok) =>
          /\ toasts' = <<[level |-> "success",
                          message |-> "Successfully deleted tracks from " \o last'.ctx.name]>>
          /\ ReloadIssued
          /\ artists' = artists]_vars
  /\ [][(Answers({"deleteByRange"}) /\ last'.outcome.ok) =>
          /\ toasts' = <<[level |-> "success",
                          message |-> "Successfully deleted tracks in the specified range"]>>
          /\ \A s \in Slots : inflight'[s] # SummaryRequest
          /\ rangeForm' = EmptyRangeForm]_vars
  /\ [][ListOnlyReplaced]_vars

C6_Witness ==
  /\ Answered({"deleteArtistTracks"})
  /\ last.outcome.ok
  /\ \E s \in Slots : inflight[s] = SummaryRequest
  /\ HasSuccessToast(toasts)

-----------------------------------------------------------------------------
(* C7: when a deletion or playlist request fails, the view's error         *)
(* notification carries the server's message if the error has one and the  *)
(* generic fallback otherwise.                                             *)

GenericFallback ==
  IF last.sub = "handleAction" THEN actionCopy[last.ctx.action].error
  ELSE "Failed to delete tracks"

\* the view's handler runs after the interceptor: its notification is the last
ViewToast == toasts[Len(toasts)]

C7_ServerMessagePreferred ==
  (Answered({"deleteArtistTracks", "deleteByRange", "handleAction"}) /\ ~last.outcome.ok) =>
    /\ toasts # <<>>
    /\ ViewToast.level = "error"
    /\ ViewToast.message =
         IF last.outcome.message # UNDEFINED THEN last.outcome.message.v
         ELSE GenericFallback

-----------------------------------------------------------------------------
(* C8: on a valid range form deleteByRange warns once and opens nothing    *)
(* when both bounds are absent, and otherwise opens one prompt saying      *)
(* 'min to max tracks', 'at least min tracks' or 'at most max tracks'; 0   *)
(* is a present bound.                                                     *)

ScopeAsStated(f) ==
  IF f.min # NULL /\ f.max # NULL
    THEN NumToString(f.min.v) \o " to " \o NumToString(f.max.v) \o " tracks?"
  ELSE IF f.min # NULL THEN "at least " \o NumToString(f.min.v) \o " tracks?"
  ELSE "at most " \o NumToString(f.max.v) \o " tracks?"

C8_PromptByPresence ==
  [][(last'.op = "deleteByRange" /\ ~InvalidRangeAsStated(last'.form)) =>
       /\ inflight' = inflight
       /\ IF last'.form.min = NULL /\ last'.form.max = NULL
          THEN /\ toasts' = <<[level |-> "warning",
                               message |-> "Please specify at least one range value"]>>
               /\ modal' = NoModal
          ELSE /\ toasts' = <<>>
               /\ modal = NoModal
               /\ modal'.sub = "deleteByRange"
               /\ modal'.message =
                    "Are you sure you want to delete tracks from artists with "
                      \o ScopeAsStated(last'.form)]_vars

C8_Witness ==
  /\ last.op = "deleteByRange"
  /\ last.form = [min |-> Num(0), max |-> NULL]
  /\ modal.sub = "deleteByRange"
  /\ modal.message = "Are you sure you want to delete tracks from artists with at least 0 tracks?"

-----------------------------------------------------------------------------
(* C9: the range validator reports invalidRange exactly when both bounds   *)
(* are given and min > max; (5,3) is invalid, (5,5), a single bound and    *)
(* (null,null) are valid.                                                  *)

C9_RangeValidator ==
  /\ rangeErrors = InvalidRange <=>
       (rangeForm.min # NULL /\ rangeForm.max # NULL /\ rangeForm.min.v > rangeForm.max.v)
  /\ rangeForm = [min |-> Num(5), max |-> Num(3)] => rangeErrors = InvalidRange
  /\ rangeForm = [min |-> Num(5), max |-> Num(5)] => rangeErrors = NULL
  /\ (rangeForm.min = NULL \/ rangeForm.max = NULL) => rangeErrors = NULL

C9_Witness ==
  /\ last.op = "editRange"
  /\ rangeForm = [min |-> Num(5), max |-> Num(3)]
  /\ rangeErrors = InvalidRange

-----------------------------------------------------------------------------
(* C10: for every outcome of the status check the guard yields exactly one *)
(* decision: allow only with the authentication flag true, otherwise the   *)
(* UrlTree of /login, returned and not navigated to; a protected view is   *)
(* entered from outside only by an allow.                                  *)

GuardDecided ==
  Answered({"authGuard"}) =>
    /\ Len(decisions) = 1
    /\ decisions[1] \in {ALLOW, UrlTree("/login")}
    /\ decisions[1] = ALLOW <=> isAuthenticated
    /\ decisions[1] = ALLOW <=> (last.outcome.ok /\ last.outcome.body.success)
    /\ navCalls = <<>>
    /\ route \in Protected <=> decisions[1] = ALLOW

C10_GuardBlocksEntry ==
  /\ []GuardDecided
  /\ [][(route \notin Protected /\ route' \in Protected) =>
          (Answers({"authGuard"}) /\ decisions' = <<ALLOW>> /\ isAuthenticated')]_vars

C10_Witness ==
  /\ Answered({"authGuard"})
  /\ ~last.outcome.ok
  /\ last.outcome.status = 401
  /\ decisions = <<UrlTree("/login")>>
  /\ navCalls = <<>>
  /\ route = "login"

-----------------------------------------------------------------------------
(* C11: when the application has loaded, a status check GET /auth/is-auth  *)
(* is in flight without a guard or a view having asked for it.             *)

StatusCheckInFlight == \E s \in Slots : isAuthCheck(inflight[s])

C11_StatusCheckOnLoad ==
  (last.op = "init" \/ (last.op = "login" /\ Truthy(last.code))) => StatusCheckInFlight

-----------------------------------------------------------------------------
(* C12: after a request other than the status check has failed with 401,   *)
(* the authentication flag is false and the persisted flag is removed.     *)

StatusCheckSubs == {"authGuard", "callbackCheck"}

Unauthorized(subs) ==
  /\ last.op = "response"
  /\ last.sub \in subs
  /\ ~last.outcome.ok
  /\ last.outcome.status = 401

AllSubs ==
  {"loadTrackSummary", "deleteArtistTracks", "deleteByRange", "loadUserPlaylists",
   "handleAction", "handleCallback", "callbackCheck", "logout", "authGuard"}

C12_FlagClearedOn401 ==
  Unauthorized(AllSubs \ StatusCheckSubs) => (isAuthenticated = FALSE /\ storedAuth = NULL)

-----------------------------------------------------------------------------
(* C13: for every outcome of the callback view's call (the exchange when a *)
(* code is present, the status check otherwise) exactly one navigation is  *)
(* requested: to the dashboard with a success notification when the call   *)
(* succeeds, to login with an error notification when it fails.            *)

CallbackSubs == {"handleCallback", "callbackCheck"}

\* the exchange succeeds with a response, the status check with success: true
CallSucceeded ==
  /\ last.outcome.ok
  /\ last.sub = "callbackCheck" => last.outcome.body.success

HasToast(level) == \E i \in 1..Len(toasts) : toasts[i].level = level

C13_OneTerminalNavigation ==
  Answered(CallbackSubs) =>
    /\ Len(navCalls) = 1
    /\ IF CallSucceeded
       THEN navCalls[1].url = "/dashboard" /\ HasToast("success") /\ ~HasToast("error")
       ELSE navCalls[1].url = "/login" /\ HasToast("error") /\ ~HasToast("success")

-----------------------------------------------------------------------------
(* C14: whatever the answer to POST /auth/logout (a success body, a        *)
(* failure body or an error status), afterwards the authentication flag is *)
(* false, the user record is null, the persisted flag is removed and one   *)
(* navigation to /login has been requested.                                *)

C14_LogoutClearsState ==
  Answered({"logout"}) =>
    /\ isAuthenticated = FALSE
    /\ currentUser = NULL
    /\ storedAuth = NULL
    /\ Len(navCalls) = 1
    /\ navCalls[1].url = "/login"

-----------------------------------------------------------------------------
(* C15: the answer 401 to a request other than the status check makes the  *)
(* interceptor show 'Session expired. Please login again.' once and        *)
(* request the navigation to /login once, and the login view is shown      *)
(* afterwards; a 401 of GET /auth/is-auth, and every other step, makes it  *)
(* do neither.                                                             *)

SessionExpired == [level |-> "error", message |-> "Session expired. Please login again."]

ForcedNavigation == [by |-> "authInterceptor", url |-> "/login"]

Count(seq, x) == Cardinality({i \in 1..Len(seq) : seq[i] = x})

C15_SessionExpiredOncePer401 ==
  /\ Unauthorized(AllSubs \ StatusCheckSubs) =>
       /\ Count(toasts, SessionExpired) = 1
       /\ Count(navCalls, ForcedNavigation) = 1
       /\ route = "login"
  /\ ~Unauthorized(AllSubs \ StatusCheckSubs) =>
       /\ Count(toasts, SessionExpired) = 0
       /\ Count(navCalls, ForcedNavigation) = 0

C15_Witness ==
  /\ Unauthorized({"deleteArtistTracks"})
  /\ toasts[1] = SessionExpired
  /\ navCalls = <<ForcedNavigation>>
  /\ route = "login"

-----------------------------------------------------------------------------
(* C16: a failed request is first translated centrally (status 0: the      *)
(* connectivity notification, 500: the server-error notification, 401 on   *)
(* a request other than the status check: 'session expired', any other     *)
(* status: nothing) and the error then reaches the subscriber, whose error *)
(* handler runs: the view's error notification follows the central one,    *)
(* the status check turns the error into `not authenticated', and logout,  *)
(* which has no error handler, adds nothing.                               *)

Failed(subs) == Answered(subs) /\ ~last.outcome.ok

CentralToasts ==
  CASE last.outcome.status = 0 ->
         <<[level |-> "error",
            message |-> "Unable to connect to server. Please check your connection."]>>
    [] last.outcome.status = 500 ->
         <<[level |-> "error", message |-> "Server error occurred. Please try again."]>>
    [] last.outcome.status = 401 /\ last.sub \notin StatusCheckSubs -> <<SessionExpired>>
    [] OTHER -> <<>>

ViewErrorMessage ==
  CASE last.sub = "loadTrackSummary" -> "Failed to load track summary"
    [] last.sub \in {"deleteArtistTracks", "deleteByRange"} -> "Failed to delete tracks"
    [] last.sub = "loadUserPlaylists" ->
         "Failed to load playlists. You can still enter a playlist ID manually."
    [] last.sub = "handleAction" ->
         IF last.outcome.message # UNDEFINED THEN last.outcome.message.v
         ELSE actionCopy[last.ctx.action].error
    [] last.sub = "handleCallback" -> "Failed to authenticate with Spotify"
    [] last.sub = "callbackCheck" -> "Authentication failed"

C16_TranslatedAndRethrown ==
  /\ Failed(AllSubs \ {"logout", "authGuard"}) =>
       toasts = CentralToasts \o <<[level |-> "error", message |-> ViewErrorMessage]>>
  /\ Failed({"logout"}) => toasts = CentralToasts
  /\ Failed({"authGuard"}) =>
       (toasts = CentralToasts /\ decisions = <<UrlTree("/login")>>)
  /\ Failed(StatusCheckSubs) => isAuthenticated = FALSE

C16_Witness ==
  /\ Failed({"loadTrackSummary"})
  /\ last.outcome.status = 500
  /\ toasts = <<[level |-> "error", message |-> "Server error occurred. Please try again."],
                [level |-> "error", message |-> "Failed to load track summary"]>>

-----------------------------------------------------------------------------
(* C17: the step in which a request fails issues no request: every request *)
(* is in flight at most as often as before, and one request fewer is in    *)
(* flight; a request is sent again only by a later action of the user.     *)

Pending(reqs) == Cardinality({s \in Slots : reqs[s] # FREE})

C17_NoRetry ==
  [][(Answers(AllSubs) /\ ~last'.outcome.ok) =>
       /\ \A s \in Slots :
            inflight'[s] # FREE => InFlight(inflight', inflight'[s]) <= InFlight(inflight, inflight'[s])
       /\ Pending(inflight') < Pending(inflight)]_vars

C17_Witness ==
  /\ Failed({"loadTrackSummary"})
  /\ last.outcome.status = 500
  /\ route = "dashboard"
  /\ Idle
  /\ isLoading = FALSE

-----------------------------------------------------------------------------
(* C18: a request in flight always belongs to a subscriber that is alive   *)
(* (the view shown, the layout of the protected area, or the guard), so no *)
(* response reaches the handlers of a view that is gone; and when a view   *)
(* is left while a request it started with show() is in flight, the        *)
(* loading indicator is hidden unless the next view has shown it again.    *)

LiveSubs ==
  SubsOf(route) \cup (IF route \in Protected THEN LayoutSubs ELSE {}) \cup {"authGuard"}

SubscribersAlive == \A s \in Slots : inflight[s] # FREE => inflight[s].sub \in LiveSubs

LoadingReleased ==
  (/\ route' # route
   /\ \E s \in Slots : inflight[s].sub \in SubsOf(route) \cap ShowsLoading) =>
    /\ \A s \in Slots : inflight'[s].sub \notin SubsOf(route) \ SubsOf(route')
    /\ loading' => \E s \in Slots : inflight'[s].sub \in SubsOf(route') \cap ShowsLoading

C18_TeardownReleasesSubscriptions ==
  /\ []SubscribersAlive
  /\ [][LoadingReleased]_vars
  /\ [][Answers(AllSubs) => last'.sub \in LiveSubs]_vars

C18_Witness ==
  /\ last.op = "navigate"
  /\ last.target = "tracks"
  /\ "handleAction" \in last.aborted
  /\ route = "tracks"
  /\ Idle
  /\ loading = FALSE

-----------------------------------------------------------------------------
(* C19: after every operation of the dashboard and of the store,           *)
(* totalArtists is the length of the artist list and totalTracks the sum   *)
(* of its counts; an empty list gives 0 and 0.                             *)

RECURSIVE SumOfCounts(_, _)
SumOfCounts(list, n) == IF n = 0 THEN 0 ELSE SumOfCounts(list, n - 1) + list[n].count

C19_TotalsMatchList ==
  /\ totalArtists = Len(artists)
  /\ totalTracks = SumOfCounts(artists, Len(artists))
  /\ artists = <<>> => (totalArtists = 0 /\ totalTracks = 0)
  /\ TrackStore_totalArtists(W) = Len(store.artists)
  /\ TrackStore_totalTracks(W) = SumOfCounts(store.artists, Len(store.artists))
  /\ store.artists = <<>> => (TrackStore_totalArtists(W) = 0 /\ TrackStore_totalTracks(W) = 0)

C19_Witness ==
  /\ Answered({"loadTrackSummary"})
  /\ last.outcome.ok
  /\ Len(artists) = 6
  /\ totalArtists = 6
  /\ totalTracks = 32

-----------------------------------------------------------------------------
(* C20: the chart shows the artist list sorted by descending count, equal  *)
(* counts in the order of the list, cut to five entries (all of them when  *)
(* there are fewer); [a:10, b:3, c:7, d:1, e:9, f:2] gives a, e, c, b, f;  *)
(* the list itself stays as the backend sent it.  The store's topArtists   *)
(* is the same selection of the store's list.                              *)

\* the first of the entries with the largest count
First(list) ==
  CHOOSE i \in 1..Len(list) :
    \A j \in 1..Len(list) :
      list[j].count < list[i].count \/ (list[j].count = list[i].count /\ j >= i)

Without(list, i) == SubSeq(list, 1, i - 1) \o SubSeq(list, i + 1, Len(list))

RECURSIVE TopN(_, _)
TopN(list, n) ==
  IF n = 0 \/ list = <<>> THEN <<>>
  ELSE <<list[First(list)]>> \o TopN(Without(list, First(list)), n - 1)

Names(list) == [i \in 1..Len(list) |-> list[i].name]

SpecExample ==
  <<Artist("a", "a", 10), Artist("b", "b", 3), Artist("c", "c", 7),
    Artist("d", "d", 1), Artist("e", "e", 9), Artist("f", "f", 2)>>

C20_ChartIsTopFive ==
  /\ chartData = [i \in 1..Len(TopN(artists, 5)) |->
                    [label |-> TopN(artists, 5)[i].name, value |-> TopN(artists, 5)[i].count]]
  /\ Len(chartData) = IF Len(artists) < 5 THEN Len(artists) ELSE 5
  /\ artists = SpecExample => [i \in 1..Len(chartData) |-> chartData[i].label]
                                = <<"a", "e", "c", "b", "f">>
  /\ (Answered({"loadTrackSummary"}) /\ last.outcome.ok) => artists = last.outcome.body
  /\ TrackStore_topArtists(W) = TopN(store.artists, 5)
  /\ store.artists = SpecExample => Names(TrackStore_topArtists(W)) = <<"a", "e", "c", "b", "f">>

C20_Witness ==
  /\ Answered({"loadTrackSummary"})
  /\ artists = SpecExample
  /\ chartData = <<[label |-> "a", value |-> 10], [label |-> "e", value |-> 9],
                   [label |-> "c", value |-> 7], [label |-> "b", value |-> 3],
                   [label |-> "f", value |-> 2]>>

-----------------------------------------------------------------------------
(* C21: the filtered view holds exactly the artists whose name contains    *)
(* the query, capitals and small letters taken as equal (every artist for  *)
(* an empty query), ordered by the selected column in the selected         *)
(* direction, artists that tie in the order of the base list; filtering    *)
(* and sorting leave the base list as it is.  As stated the query is the   *)
(* text of the search box; the code matches that text without the blanks   *)
(* around it.                                                              *)

SameLetters(x, y) ==
  /\ Len(x) = Len(y)
  /\ \A i \in 1..Len(x) : LowerChar(x[i]) = LowerChar(y[i])

ContainsIgnoringCase(name, query) ==
  \E start \in 0..(Len(name) - Len(query)) :
    SameLetters(SubSeq(name, start + 1, start + Len(query)), query)

Matches(list, query) ==
  SelectSeq(list, LAMBDA a : ContainsIgnoringCase(Chars(a.name), query))

BaseIndex(list, a) == CHOOSE i \in 1..Len(list) : list[i] = a

\* negative when a comes before b in the selected order, zero when they tie
SelectedOrder(a, b, column, direction) ==
  LET k == IF column = "name" THEN localeCompare(a.name, b.name) ELSE a.count - b.count
  IN IF direction = "asc" THEN k ELSE 0 - k

IsFilteredView(filteredView, list, query, column, direction) ==
  \E view \in {filteredView}, matches \in {Matches(list, query)} :
    /\ Len(view) = Len(matches)
    /\ Items(view) = Items(matches)
    /\ \A i \in 1..Len(view) : \A j \in (i + 1)..Len(view) :
         /\ SelectedOrder(view[i], view[j], column, direction) <= 0
         /\ SelectedOrder(view[i], view[j], column, direction) = 0
              => BaseIndex(list, view[i]) < BaseIndex(list, view[j])

FilterSteps == {"applyFilter", "sortTable"}

\* the list the component filters
BaseList == IF route = "dashboardRefactored" THEN store.artists ELSE artists

\* the statement with the text of the search box as the query
C21_FilteredViewAsStated ==
  /\ IsFilteredView(filteredArtists, artists, searchFilter, sortColumn, sortDirection)
  /\ IsFilteredView(Refactored_filteredArtists(W), store.artists, searchFilter,
                    sortColumn, sortDirection)
  /\ last.op \in FilterSteps => BaseList = last.list

\* the statement with the trimmed text of the search box as the query
C21_FilteredViewOfTrimmedQuery ==
  /\ IsFilteredView(filteredArtists, artists, Trim(searchFilter), sortColumn, sortDirection)
  /\ IsFilteredView(Refactored_filteredArtists(W), store.artists, Trim(searchFilter),
                    sortColumn, sortDirection)
  /\ last.op \in FilterSteps => BaseList = last.list

C21_Witness ==
  /\ last.op = "applyFilter"
  /\ route = "dashboard"
  /\ Len(artists) = 23
  /\ searchFilter = <<" ", "B">>
  /\ filteredArtists = <<TableArtist(2)>>

-----------------------------------------------------------------------------
(* C22: the paginated view of page p (pages count from 1) holds the items  *)
(* of the filtered list at the positions (p-1)*pageSize up to, not         *)
(* including, p*pageSize; for a page that is zero, negative or beyond the  *)
(* last page it is empty; 23 items with pageSize 10 give pages of 10, 10,  *)
(* 3 and 0 items.                                                          *)

\* the positions (from 0) of the list that page p covers
PagePositions(list, page, pageSize) ==
  {i \in 0..(Len(list) - 1) : (page - 1) * pageSize <= i /\ i < page * pageSize}

\* the items at those positions, in the order of the list
PageOf(list, page, pageSize) ==
  [k \in 1..Cardinality(PagePositions(list, page, pageSize)) |->
     list[(page - 1) * pageSize + k]]

PageSizesOfExample == <<10, 10, 3, 0>>

IsPaginatedView(view, list, page) ==
  /\ view = PageOf(list, page, itemsPerPage)
  /\ (page < 1 \/ page > ceil(Len(list), itemsPerPage)) => view = <<>>
  /\ (Len(list) = 23 /\ page \in 1..4) => Len(view) = PageSizesOfExample[page]

C22_PagesAsStated ==
  /\ IsPaginatedView(paginatedArtists(W), filteredArtists, currentPage)
  /\ IsPaginatedView(Refactored_paginatedArtists(W), Refactored_filteredArtists(W), currentPage)

-----------------------------------------------------------------------------
(* C23: the page count is the length of the filtered list divided by the   *)
(* page size, rounded up; each of the pages 1..totalPages holds an item,   *)
(* no later page holds one, and the pages 1..totalPages one after the      *)
(* other are the filtered list.                                            *)

\* the least number of pages of the given size that hold n items
PagesNeeded(n, pageSize) == CHOOSE k \in 0..n : k * pageSize >= n /\ \A j \in 0..(k - 1) : j * pageSize < n

\* the pages 1..n one after the other
RECURSIVE PagesUpTo(_, _)
PagesUpTo(n, pageAt) == IF n = 0 THEN <<>> ELSE PagesUpTo(n - 1, pageAt) \o pageAt[n]

\* how far beyond the last page the pages are looked at
PagesBeyond == 2

\* pageAt[p] is the paginated view after changePage(p)
PagesCover(list, pages, pageAt) ==
  /\ pages = PagesNeeded(Len(list), itemsPerPage)
  /\ \A p \in 1..pages : pageAt[p] # <<>>
  /\ \A p \in (pages + 1)..(pages + PagesBeyond) : pageAt[p] = <<>>
  /\ PagesUpTo(pages, pageAt) = list

C23_PagesCoverList ==
  /\ PagesCover(filteredArtists, totalPages(W),
                [p \in 1..(totalPages(W) + PagesBeyond) |->
                   paginatedArtists(changePage(W, p))])
  /\ PagesCover(Refactored_filteredArtists(W), Refactored_totalPages(W),
                [p \in 1..(Refactored_totalPages(W) + PagesBeyond) |->
                   Refactored_paginatedArtists(Refactored_changePage(W, p))])

C23_Witness ==
  /\ last.op = "changePage"
  /\ route = "dashboard"
  /\ Len(filteredArtists) = 23
  /\ totalPages(W) = 3
  /\ currentPage = 3
  /\ paginatedArtists(W) = SubSeq(filteredArtists, 21, 23)

-----------------------------------------------------------------------------
(* C24: when a confirmed `clear playlist' or `clear playlist and library'  *)
(* action completes (its request is answered with success), lastOperation  *)
(* holds the playlist id and the action type of that action, whatever it   *)
(* held before; the request of an action carries that id and goes to the   *)
(* endpoint of that action type.                                           *)

ActionUrl(action) ==
  IF action = "playlist" THEN "/playlist/delete-tracks"
  ELSE "/playlist/delete-tracks-and-library"

\* the request in flight is the one of the action its subscriber remembers
RequestOfItsAction(req) ==
  /\ req.url = ActionUrl(req.ctx.action)
  /\ req.params = {<<"id", Join(req.ctx.playlistId)>>}

C24_LastOperationOverwritten ==
  [][ /\ \A s \in Slots :
           inflight'[s].sub = "handleAction" => RequestOfItsAction(inflight'[s])
      /\ (Answers({"handleAction"}) /\ last'.outcome.ok) =>
           /\ lastOperation' # UNDEFINED
           /\ lastOperation'.playlistId = last'.ctx.playlistId
           /\ lastOperation'.action = last'.ctx.action ]_vars

C24_Witness ==
  /\ Answered({"handleAction"})
  /\ last.outcome.ok
  /\ last.ctx.action = "playlistAndLibrary"
  /\ lastOperation # UNDEFINED
  /\ lastOperation.action = "playlistAndLibrary"
  /\ lastOperation.playlistId = Rep("7", PlaylistMinLength + 1)
  /\ \E s \in Slots : inflight[s].sub = "handleAction" /\ inflight[s].ctx.action = "playlist"

-----------------------------------------------------------------------------
(* C25: withLoading shows the loading indicator when the observable is     *)
(* subscribed to and hides it when the observable completes or fails: the  *)
(* indicator is on for as long as the wrapped request is in flight, and    *)
(* off once no request is in flight.                                       *)

WrappedInFlight == \E s \in Slots : inflight[s].sub \in {"refactoredLoad", "refactoredDelete"}

C25_LoadingCoversRequest ==
  /\ WrappedInFlight => loading = TRUE
  /\ Idle => loading = FALSE

-----------------------------------------------------------------------------
(* C26: the stream of openConfirmDialog emits exactly one boolean for      *)
(* every way of closing the dialog, true for a confirmation and false for  *)
(* a cancellation or a dismissal, and never ends with an error.            *)

C26_OneBooleanPerClosing ==
  [][Closes({"refactoredDelete"}, ModalResults) =>
       /\ ~last'.stream.error
       /\ last'.stream.values = <<last'.result = "true">>]_vars

-----------------------------------------------------------------------------
(* C27: after the GET /track/summary of the store-based dashboard has      *)
(* succeeded, the artists of the store are the summaries returned, and     *)
(* totalArtists, totalTracks and topArtists are those of the summaries.    *)

C27_StoreHoldsSummaries ==
  (Answered({"refactoredLoad"}) /\ last.outcome.ok) =>
    /\ store.artists = last.outcome.body
    /\ TrackStore_totalArtists(W) = Len(last.outcome.body)
    /\ TrackStore_totalTracks(W) = SumOfCounts(last.outcome.body, Len(last.outcome.body))
    /\ TrackStore_topArtists(W) = TopN(last.outcome.body, 5)

-----------------------------------------------------------------------------
(* C28: when the callback view navigates to the dashboard, after the code  *)
(* exchange or after the status check, the authentication flag is true;    *)
(* a response with success = false leads neither to the navigation to the  *)
(* dashboard nor to the success notification.                              *)

NavigatesTo(url) == \E i \in 1..Len(navCalls) : navCalls[i].url = url

C28_DashboardOnlyWithSession ==
  Answered(CallbackSubs) =>
    /\ NavigatesTo("/dashboard") => isAuthenticated
    /\ (last.outcome.ok /\ ~last.outcome.body.success) =>
         (~NavigatesTo("/dashboard") /\ ~HasToast("success"))

-----------------------------------------------------------------------------
(* C29: the key 'isAuthenticated' of localStorage mirrors the flag: every  *)
(* completed status check and every completed logout of a page session     *)
(* leaves the key present with the value 'true' exactly if the flag is     *)
(* true, and every later step of the page session keeps it so (a page      *)
(* load starts a new page session).                                        *)

KeyMirrorsFlag == (storedAuth = Str("true")) <=> isAuthenticated

\* the step loads the application anew
PageLoad == last'.op = "login"

C29_KeyMirrorsFlag ==
  [][ /\ Answers(StatusCheckSubs \cup {"logout"}) => KeyMirrorsFlag'
      /\ (KeyMirrorsFlag /\ ~PageLoad) => KeyMirrorsFlag' ]_vars

C29_Witness ==
  /\ Answered({"logout"})
  /\ last.outcome.ok
  /\ route = "login"
  /\ ~isAuthenticated
  /\ storedAuth = NULL

-----------------------------------------------------------------------------
(* C30: summary requests of the dashboard that overlap are neither         *)
(* cancelled nor merged: a successful response is applied when it arrives  *)
(* and the other requests stay in flight; the list, the totals and the     *)
(* chart change at no other step, and the filtered view is always the      *)
(* filter of the list: they are those of the successful load that          *)
(* completed last.                                                         *)

ChartOf(list) == [i \in 1..Len(list) |-> [label |-> list[i].name, value |-> list[i].count]]

LoadApplied(data) ==
  /\ artists' = data
  /\ totalArtists' = Len(data)
  /\ totalTracks' = SumOfCounts(data, Len(data))
  /\ chartData' = ChartOf(TopN(data, 5))
  /\ InFlight(inflight', SummaryRequest) = InFlight(inflight, SummaryRequest) - 1

LoadedDataKept ==
  /\ artists' = artists
  /\ totalArtists' = totalArtists
  /\ totalTracks' = totalTracks
  /\ chartData' = chartData
  /\ InFlight(inflight', SummaryRequest) >= InFlight(inflight, SummaryRequest)
       \/ (Answers({"loadTrackSummary"}) /\ InFlight(inflight', SummaryRequest) = InFlight(inflight, SummaryRequest) - 1)

C30_LastCompletedLoadWins ==
  [][ /\ IF Answers({"loadTrackSummary"}) /\ last'.outcome.ok
         THEN LoadApplied(last'.outcome.body)
         ELSE LoadedDataKept
      /\ IsFilteredView(filteredArtists', artists', Trim(searchFilter'), sortColumn',
                        sortDirection') ]_vars

C30_Witness ==
  /\ Answered({"loadTrackSummary"})
  /\ last.outcome.ok
  /\ Len(last.outcome.body) = 4
  /\ artists = last.outcome.body
  /\ totalArtists = 4
  /\ \E s \in Slots : inflight[s] = SummaryRequest

====
